---- MODULE Spec2Model ----
(***************************************************************************)
(* Popper's refinement loop (src/popper.py) with the evaluator it drives   *)
(* (src/popper/tester.py): generate a candidate, test it, track the best   *)
(* program, classify the outcome, build and ground constraints, and hand   *)
(* them back to the candidate generator.                                   *)
(***************************************************************************)
EXTENDS Integers, Sequences, FiniteSets, TLC

\* ------------------------------------------------------------------ bounds

\* Largest settings.max_literals of a run.
MaxLiterals == 2
\* Cap on stats.total_programs: the generator answers "no model" beyond it.
MaxPrograms == 2
\* Number of positive and of negative examples loaded by the tester.
NumPos == 2
NumNeg == 1
\* Largest number of variable assignments the binder returns for one rule.
MaxBindings == 1
\* Largest count in a free-standing confusion matrix (SpecFn).
MaxCount == 5
\* The generator's max_clauses and max_vars, passed on to the binder.
MaxClauses == 2
MaxVars == 3
\* Largest number of assignments the binder returns for one rule when
\* ground_rules is checked on its own (SpecGround).
GroundBindings == 2

\* ---------------------------------------------------------------- constants

Outcome_ALL == "all"
Outcome_SOME == "some"
Outcome_NONE == "none"

Con_GENERALISATION == "generalisation"
Con_SPECIALISATION == "specialisation"
Con_REDUNDANCY == "redundancy"
Con_BANISH == "banish"
\* Constrain.redundant_literal_constraint builds a constraint of its own kind.
Con_REDUNDANT_LITERAL == "redundant_literal"

\* The table with the rows of (NONE, NONE) and (SOME, NONE) exchanged.
OUTCOME_TO_CONSTRAINTS_swapped ==
    ( <<"all", "none">>  :> <<"banish">> ) @@
    ( <<"all", "some">>  :> <<"generalisation">> ) @@
    ( <<"some", "none">> :> <<"specialisation", "redundancy">> ) @@
    ( <<"some", "some">> :> <<"specialisation", "generalisation">> ) @@
    ( <<"none", "none">> :> <<"specialisation">> ) @@
    ( <<"none", "some">> :> <<"specialisation", "redundancy", "generalisation">> )

\* The table with REDUNDANCY alone in the row of (NONE, NONE).
OUTCOME_TO_CONSTRAINTS_redundancy_only ==
    ( <<"all", "none">>  :> <<"banish">> ) @@
    ( <<"all", "some">>  :> <<"generalisation">> ) @@
    ( <<"some", "none">> :> <<"specialisation">> ) @@
    ( <<"some", "some">> :> <<"specialisation", "generalisation">> ) @@
    ( <<"none", "none">> :> <<"redundancy">> ) @@
    ( <<"none", "some">> :> <<"specialisation", "redundancy", "generalisation">> )

OUTCOME_TO_CONSTRAINTS ==
    ( <<Outcome_ALL, Outcome_NONE>>  :> <<Con_BANISH>> ) @@
    ( <<Outcome_ALL, Outcome_SOME>>  :> <<Con_GENERALISATION>> ) @@
    ( <<Outcome_SOME, Outcome_NONE>> :> <<Con_SPECIALISATION>> ) @@
    ( <<Outcome_SOME, Outcome_SOME>> :> <<Con_SPECIALISATION, Con_GENERALISATION>> ) @@
    ( <<Outcome_NONE, Outcome_NONE>> :> <<Con_SPECIALISATION, Con_REDUNDANCY>> ) @@
    ( <<Outcome_NONE, Outcome_SOME>> :>
          <<Con_SPECIALISATION, Con_REDUNDANCY, Con_GENERALISATION>> )

PROG_KEY == "prog"

\* ------------------------------------------------------------ the universe

\* A clause is <<identity, separable>>: Clause.is_separable reads the flag.
Clauses == { <<1, TRUE>>, <<2, TRUE>>, <<3, FALSE>> }

is_separable(rule) == rule[2]

\* The programs the candidate generator may decode from a model.
Programs == { {<<1, TRUE>>}, {<<1, TRUE>>, <<2, TRUE>>}, {<<2, TRUE>>, <<3, FALSE>>} }

\* Tester.load_examples: positive examples are indexed 1.., negative -1..
Pos == 1..NumPos
Neg == { -i : i \in 1..NumNeg }
Examples == Pos \cup Neg

Outcomes == {Outcome_ALL, Outcome_SOME, Outcome_NONE}

Assignments == 1..MaxBindings

VARIABLES
    pc,              \* the controller's position in popper() / __main__
    settings,        \* settings.max_literals and settings.functional_test
    size,            \* the for loop's variable
    solver,          \* the candidate generator: budget and ground-constraint store
    tester,          \* the evaluator's caches
    total_programs,  \* stats.total_programs
    best_score,      \* <<>> for None, else <<score>>
    args,            \* the dict shared with the caller
    program,         \* locals of popper()
    conf_matrix,
    score,
    outcome,
    kinds,           \* the tuple build_rules iterates over
    rules,
    stdout,          \* the lines printed outside debug mode
    prolog,          \* the Prolog engine: installed clauses, queries it has answered
    scope,           \* the position inside a `with self.using(rules)` block
    calls,           \* what the latest step asked the evaluator and the binder
    tested           \* the (program, matrix) pairs tester.test has returned, in order

vars == << pc, settings, size, solver, tester, total_programs, best_score,
           args, program, conf_matrix, score, outcome, kinds, rules, stdout,
           prolog, scope, calls, tested >>

\* A step that asks nothing of the evaluator or the binder.
NoCalls == [ is_non_functional |-> << >>, redundant_literal |-> << >>,
            redundant_clause |-> << >>, find_bindings |-> << >> ]

\* No `with self.using(rules)` block is open.
NoScope == [ at |-> "outside", todo |-> {}, rule |-> << >>, current_clauses |-> {},
            retract |-> {}, exit |-> "" ]

\* Prolog() after load_basic: no candidate clause, no query answered.
Prolog == [ clauses |-> {}, redundant_literal |-> << >> ]

Silent == calls' = NoCalls /\ UNCHANGED << prolog, scope, tested >>

\* ------------------------------------------------------------ pure functions

\* decide_outcome with the branch of lines 62-63 enabled: negative ALL when no
\* negative example is left uncovered.
decide_outcome_negative_all(cm) ==
    LET tp == cm[1]
        fn == cm[2]
        tn == cm[3]
        fp == cm[4]
        positive_outcome ==
            IF fn = 0 THEN "all"
            ELSE IF tp = 0 /\ fn > 0 THEN "none"
            ELSE "some"
        negative_outcome ==
            IF fp = 0 THEN "none"
            ELSE IF tn = 0 THEN "all"
            ELSE "some"
    IN  << positive_outcome, negative_outcome >>

decide_outcome(cm) ==
    LET tp == cm[1]
        fn == cm[2]
        fp == cm[4]
        positive_outcome ==
            IF fn = 0 THEN Outcome_ALL
            ELSE IF tp = 0 /\ fn > 0 THEN Outcome_NONE
            ELSE Outcome_SOME
        negative_outcome ==
            IF fp = 0 THEN Outcome_NONE ELSE Outcome_SOME
    IN  << positive_outcome, negative_outcome >>

calc_score(cm) == cm[1] + cm[3]

\* build_rules without lines 72-73.
remap_outcome_absent(oc) == oc

\* build_rules, lines 70-73: the remap of a negative ALL.
remap_outcome(oc) ==
    IF oc[2] = Outcome_ALL THEN << oc[1], Outcome_SOME >> ELSE oc

\* The constraint builder (popper.constrain): a constraint is a clause
\* (head, body); its body holds one standard literal per clause of the program
\* it is about and one meta literal.
constraint(kind, prog) ==
    [ head |-> << kind, prog >>,
      body |-> { [ lit |-> c, meta |-> FALSE ] : c \in prog }
                   \cup { [ lit |-> << 0, TRUE >>, meta |-> TRUE ] } ]

generalisation_constraint(prog) == { constraint(Con_GENERALISATION, prog) }
specialisation_constraint(prog) == { constraint(Con_SPECIALISATION, prog) }
redundancy_constraint(prog) == { constraint(Con_REDUNDANCY, prog) }
banish_constraint(prog) == { constraint(Con_BANISH, prog) }
redundant_literal_constraint(rule) == { constraint(Con_REDUNDANT_LITERAL, {rule}) }

constraints_of(constraint_type, prog) ==
    IF constraint_type = Con_GENERALISATION THEN generalisation_constraint(prog)
    ELSE IF constraint_type = Con_SPECIALISATION THEN specialisation_constraint(prog)
    ELSE IF constraint_type = Con_REDUNDANCY THEN redundancy_constraint(prog)
    ELSE IF constraint_type = Con_BANISH THEN banish_constraint(prog)
    ELSE {}

\* build_rules with lines 86-95 under an else of the table loop: the three
\* checks add rules only when the table gave none.
build_rules_table_else(ft, nf, yielded, rc, prog, oc) ==
    LET types == OUTCOME_TO_CONSTRAINTS[remap_outcome(oc)]
        table == UNION { constraints_of(types[i], prog) : i \in DOMAIN types }
        functional == IF ft /\ nf THEN generalisation_constraint(prog) ELSE {}
        literal == UNION { redundant_literal_constraint(rule) : rule \in yielded }
        clause == IF rc THEN generalisation_constraint(prog) ELSE {}
    IN  IF table # {} THEN table ELSE functional \cup literal \cup clause

\* build_rules: ft is settings.functional_test, nf the answer of
\* tester.is_non_functional, yielded the clauses tester.check_redundant_literal
\* yields, rc the answer of tester.check_redundant_clause.
build_rules(ft, nf, yielded, rc, prog, oc) ==
    LET types == OUTCOME_TO_CONSTRAINTS[remap_outcome(oc)]
        table == UNION { constraints_of(types[i], prog) : i \in DOMAIN types }
        functional == IF ft /\ nf THEN generalisation_constraint(prog) ELSE {}
        literal == UNION { redundant_literal_constraint(rule) : rule \in yielded }
        clause == IF rc THEN generalisation_constraint(prog) ELSE {}
    IN  table \cup functional \cup literal \cup clause

\* ground_rules, lines 34-37: the requests it sends to grounder.find_bindings,
\* each with the number of times it is sent and the assignments returned.
find_bindings(bindings, s, clauses) ==
    [ request \in { << clause, s.max_clauses, s.max_vars >> : clause \in clauses } |->
        [ count |-> Cardinality({ clause \in clauses : clause = request[1] }),
          assignments |-> bindings[request[1]] ] ]

\* ground_rules without line 40: the body is grounded as it was built.
ground_rules_unfiltered(bindings, clauses) ==
    UNION { { [ head |-> clause.head,
                body |-> clause.body,
                assignment |-> a ] : a \in bindings[clause] } : clause \in clauses }

\* ground_rules leaving the loop of lines 43-44 after its first assignment.
ground_rules_first_assignment(bindings, clauses) ==
    UNION { { [ head |-> clause.head,
                body |-> { l \in clause.body : ~ l.meta },
                assignment |-> a ] :
              a \in { b \in bindings[clause] :
                        \A other \in bindings[clause] : b <= other } } :
            clause \in clauses }

\* ground_rules: bindings[clause] is what grounder.find_bindings returns for it.
ground_rules(bindings, clauses) ==
    UNION { { [ head |-> clause.head,
                body |-> { l \in clause.body : ~ l.meta },
                assignment |-> a ] : a \in bindings[clause] } : clause \in clauses }

\* ------------------------------------------------- the candidate generator

\* ClingoSolver(settings): no budget announced yet, an empty constraint store.
ClingoSolver == [ num_literals |-> 0, store |-> {},
                 max_clauses |-> MaxClauses, max_vars |-> MaxVars ]

update_number_of_literals(s, n) == [ s EXCEPT !.num_literals = n ]

add_ground_clauses(s, clauses) == [ s EXCEPT !.store = s.store \cup clauses ]

\* ------------------------------------------------------------ the evaluator

\* Tester.success_set: the keys test() looks up for a program.
keys_of(prog) ==
    IF \A rule \in prog : is_separable(rule)
    THEN { {rule} : rule \in prog }
    ELSE { prog }

\* Tester.test leaving the loop over self.pos at the first uncovered example.
Tester_test_first_miss(seen_prog, prog) ==
    LET covered ==
            IF \A rule \in prog : is_separable(rule)
            THEN UNION { seen_prog[{rule}] : rule \in prog }
            ELSE seen_prog[prog]
        tp == Cardinality({ p \in Pos : p \in covered })
        fn == IF \E p \in Pos : p \notin covered THEN 1 ELSE 0
        fp == Cardinality({ n \in Neg : n \in covered })
        tn == Cardinality({ n \in Neg : n \notin covered })
    IN  << tp, fn, tn, fp >>

\* Tester.test over the memo seen_prog (every key of the program present).
Tester_test(seen_prog, prog) ==
    LET covered ==
            IF \A rule \in prog : is_separable(rule)
            THEN UNION { seen_prog[{rule}] : rule \in prog }
            ELSE seen_prog[prog]
        tp == Cardinality({ p \in Pos : p \in covered })
        fn == Cardinality({ p \in Pos : p \notin covered })
        fp == Cardinality({ n \in Neg : n \in covered })
        tn == Cardinality({ n \in Neg : n \notin covered })
    IN  << tp, fn, tn, fp >>

\* ------------------------------------------------------------------ popper

Running == { "for", "update", "get_model", "count", "test", "check_best",
             "set_score", "set_prog", "decide", "check_outcome", "build",
             "ground", "add", "no_more" }

Init ==
    /\ pc = "for"
    /\ settings \in [ max_literals : 0..MaxLiterals, functional_test : BOOLEAN ]
    /\ size = 0
    /\ solver = ClingoSolver
    /\ tester = [ already_checked_redundant_literals |-> {},
                  seen_prog |-> << >> ]
    /\ total_programs = 0
    /\ best_score = << >>
    /\ args = << >>
    /\ program = {}
    /\ conf_matrix = << 0, 0, 0, 0 >>
    /\ score = 0
    /\ outcome = << Outcome_NONE, Outcome_NONE >>
    /\ kinds = << >>
    /\ rules = {}
    /\ stdout = << >>
    /\ prolog = Prolog
    /\ scope = NoScope
    /\ calls = NoCalls
    /\ tested = << >>

\* line 131 over range(1, max_literals).
ForSize_short ==
    /\ pc = "for"
    /\ IF size + 1 < settings.max_literals
       THEN /\ size' = size + 1
            /\ pc' = "update"
       ELSE /\ size' = size
            /\ pc' = "no_more"
    /\ UNCHANGED << settings, solver, tester, total_programs, best_score,
                    args, program, conf_matrix, score, outcome, kinds, rules, stdout >>
    /\ Silent

\* line 131 as a while loop that never moves past size 1.
ForSize_same_size ==
    /\ pc = "for"
    /\ IF size < settings.max_literals
       THEN /\ size' = 1
            /\ pc' = "update"
       ELSE /\ size' = size
            /\ pc' = "no_more"
    /\ UNCHANGED << settings, solver, tester, total_programs, best_score,
                    args, program, conf_matrix, score, outcome, kinds, rules, stdout >>
    /\ Silent

\* line 131: the next size of range(1, max_literals + 1), or the loop's end.
ForSize ==
    /\ pc = "for"
    /\ IF size < settings.max_literals
       THEN /\ size' = size + 1
            /\ pc' = "update"
       ELSE /\ size' = size
            /\ pc' = "no_more"
    /\ UNCHANGED << settings, solver, tester, total_programs, best_score,
                    args, program, conf_matrix, score, outcome, kinds, rules, stdout >>
    /\ Silent

\* line 134 on a solver constructed inside the loop.
UpdateNumberOfLiterals_fresh_solver ==
    /\ pc = "update"
    /\ solver' = update_number_of_literals(ClingoSolver, size)
    /\ pc' = "get_model"
    /\ UNCHANGED << settings, size, tester, total_programs, best_score,
                    args, program, conf_matrix, score, outcome, kinds, rules, stdout >>
    /\ Silent

\* line 134: solver.update_number_of_literals(size).
UpdateNumberOfLiterals ==
    /\ pc = "update"
    /\ solver' = update_number_of_literals(solver, size)
    /\ pc' = "get_model"
    /\ UNCHANGED << settings, size, tester, total_programs, best_score,
                    args, program, conf_matrix, score, outcome, kinds, rules, stdout >>
    /\ Silent

\* lines 138-141 with return for break.
GetModel_return ==
    /\ pc = "get_model"
    /\ \/ /\ pc' = "no_more"
          /\ UNCHANGED program
       \/ /\ total_programs < MaxPrograms
          /\ \E p \in Programs : program' = p
          /\ pc' = "count"
    /\ UNCHANGED << settings, size, solver, tester, total_programs, best_score,
                    args, conf_matrix, score, outcome, kinds, rules, stdout >>
    /\ Silent

\* lines 138-141: solver.get_model(); no model leaves the inner loop.
GetModel ==
    /\ pc = "get_model"
    /\ \/ /\ pc' = "for"
          /\ UNCHANGED program
       \/ /\ total_programs < MaxPrograms
          /\ \E p \in Programs : program' = p
          /\ pc' = "count"
    /\ UNCHANGED << settings, size, solver, tester, total_programs, best_score,
                    args, conf_matrix, score, outcome, kinds, rules, stdout >>
    /\ Silent

\* line 143.
CountProgram ==
    /\ pc = "count"
    /\ total_programs' = total_programs + 1
    /\ pc' = "test"
    /\ UNCHANGED << settings, size, solver, tester, best_score,
                    args, program, conf_matrix, score, outcome, kinds, rules, stdout >>
    /\ Silent

\* lines 147-148: tester.test(program) and calc_score; Prolog answers each
\* success set the memo does not hold yet.
Test ==
    /\ pc = "test"
    /\ \E answer \in [ keys_of(program) \ DOMAIN tester.seen_prog -> SUBSET Examples ] :
          LET seen == answer @@ tester.seen_prog
          IN  /\ tester' = [ tester EXCEPT !.seen_prog = seen ]
              /\ conf_matrix' = Tester_test(seen, program)
              /\ score' = calc_score(Tester_test(seen, program))
    /\ pc' = "check_best"
    /\ tested' = Append(tested, << program, conf_matrix' >>)
    /\ calls' = NoCalls
    /\ UNCHANGED << settings, size, solver, total_programs, best_score,
                    args, program, outcome, kinds, rules, stdout, prolog, scope >>

\* line 151 with >= for >.
CheckBest_or_equal ==
    /\ pc = "check_best"
    /\ IF best_score = << >> \/ score >= best_score[1]
       THEN pc' = "set_score"
       ELSE pc' = "decide"
    /\ UNCHANGED << settings, size, solver, tester, total_programs, best_score,
                    args, program, conf_matrix, score, outcome, kinds, rules, stdout >>
    /\ Silent

\* line 151 reading a missing best score as 0.
CheckBest_none_as_zero ==
    /\ pc = "check_best"
    /\ IF score > (IF best_score = << >> THEN 0 ELSE best_score[1])
       THEN pc' = "set_score"
       ELSE pc' = "decide"
    /\ UNCHANGED << settings, size, solver, tester, total_programs, best_score,
                    args, program, conf_matrix, score, outcome, kinds, rules, stdout >>
    /\ Silent

\* line 151.
CheckBest ==
    /\ pc = "check_best"
    /\ IF best_score = << >> \/ score > best_score[1]
       THEN pc' = "set_score"
       ELSE pc' = "decide"
    /\ UNCHANGED << settings, size, solver, tester, total_programs, best_score,
                    args, program, conf_matrix, score, outcome, kinds, rules, stdout >>
    /\ Silent

\* line 152.
SetBestScore ==
    /\ pc = "set_score"
    /\ best_score' = << score >>
    /\ pc' = "set_prog"
    /\ UNCHANGED << settings, size, solver, tester, total_programs,
                    args, program, conf_matrix, score, outcome, kinds, rules, stdout >>
    /\ Silent

\* line 153 keeping the matrix of the program it replaces.
SetBestProg_old_matrix ==
    /\ pc = "set_prog"
    /\ args' = (PROG_KEY :> << program, IF PROG_KEY \in DOMAIN args
                                         THEN args[PROG_KEY][2]
                                         ELSE conf_matrix >>)
    /\ pc' = "decide"
    /\ UNCHANGED << settings, size, solver, tester, total_programs, best_score,
                    program, conf_matrix, score, outcome, kinds, rules, stdout >>
    /\ Silent

\* line 153.
SetBestProg ==
    /\ pc = "set_prog"
    /\ args' = (PROG_KEY :> << program, conf_matrix >>)
    /\ pc' = "decide"
    /\ UNCHANGED << settings, size, solver, tester, total_programs, best_score,
                    program, conf_matrix, score, outcome, kinds, rules, stdout >>
    /\ Silent

\* line 157.
Decide ==
    /\ pc = "decide"
    /\ outcome' = decide_outcome(conf_matrix)
    /\ pc' = "check_outcome"
    /\ UNCHANGED << settings, size, solver, tester, total_programs, best_score,
                    args, program, conf_matrix, score, kinds, rules, stdout >>
    /\ Silent

\* lines 158-159 returning on a complete program, consistent or not.
CheckOutcome_positive_only ==
    /\ pc = "check_outcome"
    /\ IF outcome[1] = Outcome_ALL
       THEN pc' = "Found"
       ELSE pc' = "build"
    /\ UNCHANGED << settings, size, solver, tester, total_programs, best_score,
                    args, program, conf_matrix, score, outcome, kinds, rules, stdout >>
    /\ Silent

\* lines 158-159 without the return: a perfect candidate goes on to line 166.
CheckOutcome_no_return ==
    /\ pc = "check_outcome"
    /\ pc' = "build"
    /\ UNCHANGED << settings, size, solver, tester, total_programs, best_score,
                    args, program, conf_matrix, score, outcome, kinds, rules, stdout >>
    /\ Silent

\* lines 158-159.
CheckOutcome ==
    /\ pc = "check_outcome"
    /\ IF outcome = << Outcome_ALL, Outcome_NONE >>
       THEN pc' = "Found"
       ELSE pc' = "build"
    /\ UNCHANGED << settings, size, solver, tester, total_programs, best_score,
                    args, program, conf_matrix, score, outcome, kinds, rules, stdout >>
    /\ Silent

\* Clause.clause_hash (popper.core): the signature of a clause.
clause_hash(c) == c[1]

\* Tester.check_redundant_literal without lines 71-72: no clause is skipped.
unchecked_no_cache(checked, prog) == prog

\* Tester.check_redundant_literal, lines 70-74: the clauses of the program whose
\* signature is not in the cache, the ones the evaluator is asked about.
unchecked(checked, prog) == { c \in prog : clause_hash(c) \notin checked }

\* Tester.check_redundant_literal, lines 75-79: the clauses it yields, redundant
\* being the clauses for which the evaluator's query has a solution.
check_redundant_literal(checked, redundant, prog) ==
    { c \in unchecked(checked, prog) : c \in redundant }

\* The evaluator's count of the redundant_literal queries it has received, per
\* signature, after one more query for each clause of `queried`.
counted(count, queried) ==
    LET asked == { clause_hash(c) : c \in queried }
    IN  [ k \in DOMAIN count \cup asked |->
            (IF k \in DOMAIN count THEN count[k] ELSE 0)
            + Cardinality({ c \in queried : clause_hash(c) = k }) ]

\* build_rules called at position `at`; a lookup miss raises KeyError.
BuildFrom(at) ==
    /\ pc = at
    /\ IF remap_outcome(outcome) \notin DOMAIN OUTCOME_TO_CONSTRAINTS
       THEN /\ pc' = "KeyError"
            /\ UNCHANGED << tester, kinds, rules >>
            /\ calls' = NoCalls
            /\ UNCHANGED prolog
       ELSE \E nf \in BOOLEAN, rc \in BOOLEAN, redundant \in SUBSET program :
              LET checked == tester.already_checked_redundant_literals
                  queried == unchecked(checked, program)
                  yielded == check_redundant_literal(checked, redundant, program)
              IN  /\ kinds' = OUTCOME_TO_CONSTRAINTS[remap_outcome(outcome)]
                  /\ tester' = [ tester EXCEPT
                        !.already_checked_redundant_literals =
                            checked \cup { clause_hash(c) : c \in program } ]
                  /\ prolog' = [ prolog EXCEPT
                        !.redundant_literal = counted(@, queried) ]
                  /\ calls' = [ NoCalls EXCEPT
                        !.is_non_functional =
                            IF settings.functional_test THEN << nf >> ELSE << >>,
                        !.redundant_literal =
                            [ k \in { clause_hash(c) : c \in queried } |->
                                \E c \in queried : clause_hash(c) = k /\ c \in redundant ],
                        !.redundant_clause = << rc >> ]
                  /\ rules' = build_rules(settings.functional_test, nf, yielded, rc,
                                          program, outcome)
                  /\ pc' = "ground"
    /\ UNCHANGED << settings, size, solver, total_programs, best_score,
                    args, program, conf_matrix, score, outcome, stdout, scope, tested >>

\* line 166.
Build == BuildFrom("build")

\* line 170 followed by continue: the ground rules are not submitted.
Ground_continue ==
    /\ pc = "ground"
    /\ \E found \in SUBSET Assignments :
          LET bindings == [ clause \in rules |-> found ]
          IN  /\ rules' = ground_rules(bindings, rules)
              /\ calls' = [ NoCalls EXCEPT !.find_bindings =
                              find_bindings(bindings, solver, rules) ]
    /\ pc' = "get_model"
    /\ UNCHANGED << settings, size, solver, tester, total_programs, best_score,
                    args, program, conf_matrix, score, outcome, kinds, stdout,
                    prolog, scope, tested >>

\* line 170: ground_rules; the binder's answer is drawn once for the call and
\* given for every rule of it.
Ground ==
    /\ pc = "ground"
    /\ \E found \in SUBSET Assignments :
          LET bindings == [ clause \in rules |-> found ]
          IN  /\ rules' = ground_rules(bindings, rules)
              /\ calls' = [ NoCalls EXCEPT !.find_bindings =
                              find_bindings(bindings, solver, rules) ]
    /\ pc' = "add"
    /\ UNCHANGED << settings, size, solver, tester, total_programs, best_score,
                    args, program, conf_matrix, score, outcome, kinds, stdout,
                    prolog, scope, tested >>

\* line 174: solver.add_ground_clauses(rules).
AddGroundClauses ==
    /\ pc = "add"
    /\ solver' = add_ground_clauses(solver, rules)
    /\ pc' = "get_model"
    /\ UNCHANGED << settings, size, tester, total_programs, best_score,
                    args, program, conf_matrix, score, outcome, kinds, rules, stdout >>
    /\ Silent

\* lines 176-177.
NoMoreSolutions ==
    /\ pc = "no_more"
    /\ stdout' = Append(stdout, "NO MORE SOLUTIONS")
    /\ pc' = "Exhausted"
    /\ UNCHANGED << settings, size, solver, tester, total_programs, best_score,
                    args, program, conf_matrix, score, outcome, kinds, rules >>
    /\ Silent

\* line 183: timeout() interrupts popper between any two of its steps.
Cancel ==
    /\ pc \in Running
    /\ pc' = "TimedOut"
    /\ UNCHANGED << settings, size, solver, tester, total_programs, best_score,
                    args, program, conf_matrix, score, outcome, kinds, rules, stdout >>
    /\ Silent

\* lines 185-191: the caller reports args['prog'] when it is there.
Report ==
    /\ pc \in { "Found", "Exhausted", "TimedOut" }
    /\ IF PROG_KEY \in DOMAIN args
       THEN IF Len(args[PROG_KEY]) = 2
            THEN /\ stdout' = stdout \o << "BEST PROGRAM:", args[PROG_KEY][1],
                                                           args[PROG_KEY][2] >>
                 /\ pc' = "Reported"
            ELSE /\ stdout' = stdout \o << "BEST PROGRAM:" >>
                 /\ pc' = "ValueError"
       ELSE /\ stdout' = stdout
            /\ pc' = "Reported"
    /\ UNCHANGED << settings, size, solver, tester, total_programs, best_score,
                    args, program, conf_matrix, score, outcome, kinds, rules >>
    /\ Silent

Next ==
    \/ ForSize
    \/ UpdateNumberOfLiterals
    \/ GetModel
    \/ CountProgram
    \/ Test
    \/ CheckBest
    \/ SetBestScore
    \/ SetBestProg
    \/ Decide
    \/ CheckOutcome
    \/ Build
    \/ Ground
    \/ AddGroundClauses
    \/ NoMoreSolutions
    \/ Cancel
    \/ Report

Spec == Init /\ [][Next]_vars

\* popper left to run: no timeout, every statement it reaches is executed and
\* every call it makes returns.
NextLive ==
    \/ ForSize
    \/ UpdateNumberOfLiterals
    \/ GetModel
    \/ CountProgram
    \/ Test
    \/ CheckBest
    \/ SetBestScore
    \/ SetBestProg
    \/ Decide
    \/ CheckOutcome
    \/ Build
    \/ Ground
    \/ AddGroundClauses
    \/ NoMoreSolutions

SpecLive == Init /\ [][NextLive]_vars /\ WF_vars(NextLive)

\* -------------------------------------------- the classifier and the table

ConfusionMatrices == (0..MaxCount) \X (0..MaxCount) \X (0..MaxCount) \X (0..MaxCount)

\* The state after lines 147-148 for any confusion matrix.
InitFn ==
    /\ pc = "decide"
    /\ settings \in [ max_literals : {MaxLiterals}, functional_test : BOOLEAN ]
    /\ size = 1
    /\ solver = update_number_of_literals(ClingoSolver, 1)
    /\ tester = [ already_checked_redundant_literals |-> {},
                  seen_prog |-> << >> ]
    /\ total_programs = 1
    /\ best_score = << >>
    /\ args = << >>
    /\ program \in Programs
    /\ conf_matrix \in ConfusionMatrices
    /\ score = calc_score(conf_matrix)
    /\ outcome = << Outcome_NONE, Outcome_NONE >>
    /\ kinds = << >>
    /\ rules = {}
    /\ stdout = << >>
    /\ prolog = Prolog
    /\ scope = NoScope
    /\ calls = NoCalls
    /\ tested = << >>

\* decide_outcome composed with build_rules, whatever the outcome.
Compose == BuildFrom("check_outcome")

NextFn ==
    \/ Decide
    \/ Compose

SpecFn == InitFn /\ [][NextFn]_vars

\* build_rules entered with any raw outcome pair.
InitRaw ==
    /\ pc = "build"
    /\ settings \in [ max_literals : {MaxLiterals}, functional_test : BOOLEAN ]
    /\ size = 1
    /\ solver = update_number_of_literals(ClingoSolver, 1)
    /\ tester = [ already_checked_redundant_literals |-> {},
                  seen_prog |-> << >> ]
    /\ total_programs = 1
    /\ best_score = << >>
    /\ args = << >>
    /\ program \in Programs
    /\ conf_matrix = << 0, 0, 0, 0 >>
    /\ score = 0
    /\ outcome \in Outcomes \X Outcomes
    /\ kinds = << >>
    /\ rules = {}
    /\ stdout = << >>
    /\ prolog = Prolog
    /\ scope = NoScope
    /\ calls = NoCalls
    /\ tested = << >>

NextRaw == Build

SpecRaw == InitRaw /\ [][NextRaw]_vars

\* -------------------------------------------- ground_rules on its own

\* line 170, the binder answering each rule on its own with up to
\* GroundBindings assignments.
GroundAny ==
    /\ pc = "ground"
    /\ \E bindings \in [ rules -> SUBSET (1..GroundBindings) ] :
          /\ rules' = ground_rules(bindings, rules)
          /\ calls' = [ NoCalls EXCEPT !.find_bindings =
                          find_bindings(bindings, solver, rules) ]
    /\ pc' = "add"
    /\ UNCHANGED << settings, size, solver, tester, total_programs, best_score,
                    args, program, conf_matrix, score, outcome, kinds, stdout,
                    prolog, scope, tested >>

\* build_rules on any raw outcome, then ground_rules and the submission.
NextGround ==
    \/ Build
    \/ GroundAny
    \/ AddGroundClauses

SpecGround == InitRaw /\ [][NextGround]_vars

\* ------------------------------------------ Tester.test and its printing

\* tester.num_pos and tester.num_neg, copied to settings at line 126: the
\* numbers of examples load_examples has indexed.
num_pos == Cardinality(Pos)
num_neg == Cardinality(Neg)

\* print_conf_matrix: the printed line, field by field.
print_conf_matrix(cm) ==
    LET tp == cm[1]
        fn == cm[2]
        tn == cm[3]
        fp == cm[4]
        approx_pos == IF tp + fn < num_pos THEN "+" ELSE ""
        approx_neg == IF tn + fp < num_neg THEN "+" ELSE ""
    IN  << "TP:", tp, approx_pos, "FN:", fn, approx_pos,
           "TN:", tn, approx_neg, "FP:", fp, approx_neg >>

\* print_conf_matrix called on the matrix test has just returned.
PrintConfMatrix ==
    /\ pc = "check_best"
    /\ stdout' = Append(stdout, print_conf_matrix(conf_matrix))
    /\ pc' = "printed"
    /\ UNCHANGED << settings, size, solver, tester, total_programs, best_score,
                    args, program, conf_matrix, score, outcome, kinds, rules >>
    /\ Silent

\* tester.test about to be called on any program, any part of its success
\* sets already in the memo.
InitTest ==
    /\ pc = "test"
    /\ settings = [ max_literals |-> MaxLiterals, functional_test |-> FALSE ]
    /\ size = 1
    /\ solver = update_number_of_literals(ClingoSolver, 1)
    /\ program \in Programs
    /\ \E known \in SUBSET keys_of(program) :
          \E memo \in [ known -> SUBSET Examples ] :
             tester = [ already_checked_redundant_literals |-> {},
                        seen_prog |-> memo ]
    /\ total_programs = 1
    /\ best_score = << >>
    /\ args = << >>
    /\ conf_matrix = << 0, 0, 0, 0 >>
    /\ score = 0
    /\ outcome = << Outcome_NONE, Outcome_NONE >>
    /\ kinds = << >>
    /\ rules = {}
    /\ stdout = << >>
    /\ prolog = Prolog
    /\ scope = NoScope
    /\ calls = NoCalls
    /\ tested = << >>

NextTest ==
    \/ Test
    \/ PrintConfMatrix

SpecTest == InitTest /\ [][NextTest]_vars

\* ------------------------------------------- Tester.using, by statement

\* (head.predicate, head.arity) of a clause (popper.core): the clauses of the
\* target predicate share theirs, the third clause defines an invented one.
head_of(c) == IF c[1] = 3 THEN << "inv1", 2 >> ELSE << "f", 1 >>

\* The rule lists using() is called with: a whole program (is_non_functional,
\* success_set(rules)) or one rule of it (success_set([rule])).
UsingArguments == Programs \cup { {rule} : rule \in Clauses }

UsingFrame ==
    UNCHANGED << pc, settings, size, solver, tester, total_programs, best_score,
                 args, program, conf_matrix, score, outcome, kinds, rules, stdout,
                 calls, tested >>

\* lines 55-57: the scope is entered, current_clauses = set().
Enter ==
    /\ scope.at = "outside"
    /\ \E rs \in UsingArguments :
          scope' = [ NoScope EXCEPT !.at = "for", !.todo = rs ]
    /\ UNCHANGED prolog
    /\ UsingFrame

\* line 58: the next rule, or line 63 (yield) when there is none.
ForRule ==
    /\ scope.at = "for"
    /\ IF scope.todo = {}
       THEN scope' = [ scope EXCEPT !.at = "body" ]
       ELSE \E rule \in scope.todo :
              scope' = [ scope EXCEPT !.at = "assertz", !.rule = rule,
                                      !.todo = @ \ {rule} ]
    /\ UNCHANGED prolog
    /\ UsingFrame

\* lines 59-61: prolog.assertz installs the rule, or raises and installs nothing.
Assertz ==
    /\ scope.at = "assertz"
    /\ \/ /\ prolog' = [ prolog EXCEPT !.clauses = @ \cup { scope.rule } ]
          /\ scope' = [ scope EXCEPT !.at = "add" ]
       \/ /\ UNCHANGED prolog
          /\ scope' = [ scope EXCEPT !.at = "finally", !.exit = "exception",
                                     !.retract = scope.current_clauses ]
    /\ UsingFrame

\* line 62: current_clauses.add((head.predicate, head.arity)).
AddCurrent ==
    /\ scope.at = "add"
    /\ scope' = [ scope EXCEPT !.at = "for",
                               !.current_clauses = @ \cup { head_of(scope.rule) } ]
    /\ UNCHANGED prolog
    /\ UsingFrame

\* line 63 and the body of the with block (lines 91-92, 97-98): it ends
\* normally, by return, or by an exception, and the finally clause begins.
Body ==
    /\ scope.at = "body"
    /\ \E how \in { "normal", "return", "exception" } :
          scope' = [ scope EXCEPT !.at = "finally", !.exit = how,
                                  !.retract = scope.current_clauses ]
    /\ UNCHANGED prolog
    /\ UsingFrame

\* lines 64-67: retractall for the next recorded (predicate, arity), or the
\* scope is left when there is none.
Retract ==
    /\ scope.at = "finally"
    /\ IF scope.retract = {}
       THEN /\ scope' = [ scope EXCEPT !.at = "left" ]
            /\ UNCHANGED prolog
       ELSE \E pa \in scope.retract :
              /\ prolog' = [ prolog EXCEPT
                    !.clauses = { c \in @ : head_of(c) # pa } ]
              /\ scope' = [ scope EXCEPT !.retract = @ \ {pa} ]
    /\ UsingFrame

\* The run's timeout raises in the running thread between two statements:
\* inside the try block the finally clause begins; inside the finally clause
\* the exception leaves it at once.
Interrupt ==
    /\ scope.at \in { "for", "assertz", "add", "body", "finally" }
    /\ IF scope.at = "finally"
       THEN scope' = [ scope EXCEPT !.at = "left", !.exit = "cancelled" ]
       ELSE scope' = [ scope EXCEPT !.at = "finally", !.exit = "cancelled",
                                    !.retract = scope.current_clauses ]
    /\ UNCHANGED prolog
    /\ UsingFrame

\* A Tester about to enter using(): nothing of a candidate is installed.
InitUsing ==
    /\ pc = "using"
    /\ settings = [ max_literals |-> MaxLiterals, functional_test |-> FALSE ]
    /\ size = 1
    /\ solver = update_number_of_literals(ClingoSolver, 1)
    /\ tester = [ already_checked_redundant_literals |-> {},
                  seen_prog |-> << >> ]
    /\ total_programs = 1
    /\ best_score = << >>
    /\ args = << >>
    /\ program = {}
    /\ conf_matrix = << 0, 0, 0, 0 >>
    /\ score = 0
    /\ outcome = << Outcome_NONE, Outcome_NONE >>
    /\ kinds = << >>
    /\ rules = {}
    /\ stdout = << >>
    /\ prolog = Prolog
    /\ scope = NoScope
    /\ calls = NoCalls
    /\ tested = << >>

NextUsing ==
    \/ Enter
    \/ ForRule
    \/ Assertz
    \/ AddCurrent
    \/ Body
    \/ Retract
    \/ Interrupt

SpecUsing == InitUsing /\ [][NextUsing]_vars


\* ------------------------------------------------------------------ claims

KindSet == { kinds[i] : i \in DOMAIN kinds }

\* C1: the run ends in Found exactly when the outcome classified for the
\* candidate just tested is (ALL, NONE), and otherwise goes on to build its
\* rules; once in Found nothing is built, grounded, submitted or requested; in
\* Found args['prog'] is the candidate just tested with its matrix, which has
\* fn = 0 and fp = 0.
C1_FoundIffAllNone ==
    /\ [][ pc = "check_outcome" /\ pc' # "TimedOut" =>
             /\ pc' = "Found" <=> outcome = << Outcome_ALL, Outcome_NONE >>
             /\ pc' # "Found" => pc' = "build" ]_vars
    /\ [][ pc' = "Found" => pc = "check_outcome" ]_vars
    /\ [][ pc = "Found" =>
             /\ pc' = "Reported"
             /\ UNCHANGED << solver, tester, rules, program, total_programs,
                             args, best_score >> ]_vars
    /\ [] ( pc = "Found" =>
              /\ PROG_KEY \in DOMAIN args
              /\ args[PROG_KEY] = << program, conf_matrix >>
              /\ conf_matrix[2] = 0
              /\ conf_matrix[4] = 0 )
    /\ [] ( pc \in { "build", "ground", "add" } =>
              ~ (conf_matrix[2] = 0 /\ conf_matrix[4] = 0) )

C1_Witness ==
    /\ pc = "Found"
    /\ total_programs = 2
    /\ solver.store # {}
    /\ args[PROG_KEY] = << program, conf_matrix >>

\* C2: best_score never decreases; the update branch is entered iff there is
\* no best yet or the candidate's score tp + tn is strictly greater than
\* best_score, so a tie keeps the earlier program; args['prog'] changes only in
\* that branch, to the candidate and its matrix, whose score is best_score.
C2_BestScoreMonotone ==
    /\ [][ best_score' # best_score =>
             /\ best_score' # << >>
             /\ best_score # << >> => best_score'[1] > best_score[1] ]_vars
    /\ [][ pc = "check_best" /\ pc' # "TimedOut" =>
             /\ pc' = "set_score" <=>
                   (best_score = << >> \/ conf_matrix[1] + conf_matrix[3] > best_score[1])
             /\ pc' # "set_score" => pc' = "decide" /\ args' = args ]_vars
    /\ [][ pc' = "set_score" => pc = "check_best" ]_vars
    /\ [][ pc = "set_score" /\ pc' # "TimedOut" =>
             pc' = "set_prog" /\ best_score' = << conf_matrix[1] + conf_matrix[3] >> ]_vars
    /\ [][ pc' = "set_prog" => pc = "set_score" ]_vars
    /\ [][ args' # args =>
             /\ pc = "set_prog"
             /\ args' = (PROG_KEY :> << program, conf_matrix >>)
             /\ best_score = << conf_matrix[1] + conf_matrix[3] >> ]_vars
    /\ [] ( pc = "decide" =>
              /\ PROG_KEY \in DOMAIN args
              /\ best_score = << args[PROG_KEY][2][1] + args[PROG_KEY][2][3] >>
              /\ best_score[1] >= conf_matrix[1] + conf_matrix[3] )

\* A tie: the second candidate scores what the first did, and the first stays.
C2_Witness ==
    /\ pc = "decide"
    /\ total_programs = 2
    /\ best_score = << score >>
    /\ args[PROG_KEY][1] # program

\* C3: wherever the run is cancelled, args['prog'] is absent or a pair of a
\* program and the matrix the evaluator gave for that program; the caller's
\* report prints that pair and raises nothing.
C3_CancelKeepsPair ==
    /\ pc # "ValueError"
    /\ PROG_KEY \in DOMAIN args =>
          /\ Len(args[PROG_KEY]) = 2
          /\ args[PROG_KEY][1] \in Programs
          /\ keys_of(args[PROG_KEY][1]) \subseteq DOMAIN tester.seen_prog
          /\ args[PROG_KEY][2] = Tester_test(tester.seen_prog, args[PROG_KEY][1])
    /\ (pc = "Reported" /\ PROG_KEY \in DOMAIN args) =>
          /\ Len(stdout) >= 3
          /\ SubSeq(stdout, Len(stdout) - 2, Len(stdout)) =
                << "BEST PROGRAM:", args[PROG_KEY][1],
                   Tester_test(tester.seen_prog, args[PROG_KEY][1]) >>

\* Cancelled between lines 152 and 153: best_score is the new candidate's, the
\* pair is still the earlier one, and it has been reported.
C3_Witness ==
    /\ pc = "Reported"
    /\ PROG_KEY \in DOMAIN args
    /\ best_score[1] > args[PROG_KEY][2][1] + args[PROG_KEY][2][3]
    /\ args[PROG_KEY][1] # program

\* C4: the ground-constraint store only grows: every step keeps what it held,
\* it changes only by add_ground_clauses adding the rules just grounded, and a
\* change of the size budget leaves it as it was.
C4_StoreOnlyGrows ==
    /\ [][ /\ solver.store \subseteq solver'.store
           /\ Cardinality(solver'.store) >= Cardinality(solver.store) ]_vars
    /\ [][ solver'.num_literals # solver.num_literals =>
             solver'.store = solver.store ]_vars
    /\ [][ solver'.store # solver.store =>
             pc = "add" /\ solver'.store = solver.store \cup rules ]_vars

\* The budget went from 1 to 2 and the constraints submitted at size 1 are there.
C4_Witness ==
    /\ pc = "get_model"
    /\ solver.num_literals = 2
    /\ total_programs = 1
    /\ solver.store # {}

\* C8: the budget is announced as 1, 2, ..., max_literals, each value once and
\* one more than the one before; candidates are requested only at the budget
\* announced last, never before the first; exhaustion comes after max_literals.
C8_BudgetAscending ==
    /\ [][ pc = "update" /\ pc' # "TimedOut" =>
             /\ pc' = "get_model"
             /\ solver'.num_literals = solver.num_literals + 1
             /\ solver'.num_literals = size ]_vars
    /\ [][ solver'.num_literals # solver.num_literals => pc = "update" ]_vars
    /\ [][ pc' = "update" => pc = "for" /\ size' = size + 1 ]_vars
    /\ [][ size' # size => pc = "for" /\ size' = size + 1 ]_vars
    /\ [] ( solver.num_literals \in 0..settings.max_literals )
    /\ [] ( pc \in { "get_model", "count", "test", "check_best", "set_score",
                     "set_prog", "decide", "check_outcome", "build", "ground",
                     "add" } =>
              /\ solver.num_literals = size
              /\ size \in 1..settings.max_literals )
    /\ [] ( total_programs > 0 => solver.num_literals >= 1 )
    /\ [] ( pc = "Exhausted" => solver.num_literals = settings.max_literals )

C8_Witness ==
    /\ pc = "Exhausted"
    /\ settings.max_literals = 2
    /\ solver.num_literals = 2
    /\ total_programs = 2

\* C9: with no model at the current size the controller leaves the inner loop
\* for the next size (or the end of the sizes) without testing, tracking or
\* submitting anything; after the last size the run ends in Exhausted, where
\* args['prog'] is there iff a program was tested and scores best_score, and
\* 'NO MORE SOLUTIONS' has been printed if no program was generated; the caller
\* then reports args['prog'] when it is there.
C9_ExhaustionReports ==
    /\ [][ pc = "get_model" /\ pc' \notin { "count", "TimedOut" } =>
             /\ pc' = "for"
             /\ UNCHANGED << size, solver, tester, total_programs, best_score,
                             args, conf_matrix, rules >> ]_vars
    /\ [][ pc = "for" /\ pc' # "TimedOut" =>
             /\ IF size < settings.max_literals
                THEN pc' = "update" /\ size' = size + 1
                ELSE pc' = "no_more" /\ size' = size
             /\ UNCHANGED << solver, tester, total_programs, best_score, args >> ]_vars
    /\ [][ pc = "no_more" /\ pc' # "TimedOut" => pc' = "Exhausted" ]_vars
    /\ [][ pc' = "Exhausted" => pc = "no_more" ]_vars
    /\ [] ( pc = "Exhausted" =>
              /\ size = settings.max_literals
              /\ total_programs = 0 =>
                    \E i \in DOMAIN stdout : stdout[i] = "NO MORE SOLUTIONS"
              /\ PROG_KEY \in DOMAIN args <=> total_programs > 0
              /\ PROG_KEY \in DOMAIN args =>
                    best_score = << args[PROG_KEY][2][1] + args[PROG_KEY][2][3] >> )
    /\ [][ pc = "Exhausted" =>
             /\ pc' = "Reported"
             /\ args' = args
             /\ stdout' = IF PROG_KEY \in DOMAIN args
                          THEN stdout \o << "BEST PROGRAM:", args[PROG_KEY][1],
                                                            args[PROG_KEY][2] >>
                          ELSE stdout ]_vars

\* No model at size 1 after one candidate, none at size 2: the best program is
\* reported after the signal.
C9_Witness ==
    /\ pc = "Reported"
    /\ size = 2
    /\ total_programs = 1
    /\ Len(stdout) = 4
    /\ stdout[1] = "NO MORE SOLUTIONS"
    /\ stdout[3] = args[PROG_KEY][1]

\* C10: a candidate goes through request, count, test, tracker update,
\* classification, build, ground and submit, one step after the other and each
\* once; each step's effect happens in that step only; the next candidate is
\* requested only after the ground rules of this one are in the store.
C10_OneCandidateInFlight ==
    /\ [][ pc' # "TimedOut" =>
             /\ pc = "get_model" =>
                   pc' \in { "count", "for" } /\ (pc' = "count" => program' \in Programs)
             /\ pc = "count" => pc' = "test" /\ total_programs' = total_programs + 1
             /\ pc = "test" =>
                   /\ pc' = "check_best"
                   /\ conf_matrix' = Tester_test(tester'.seen_prog, program)
             /\ pc = "check_best" => pc' \in { "set_score", "decide" }
             /\ pc = "set_score" => pc' = "set_prog"
             /\ pc = "set_prog" => pc' = "decide"
             /\ pc = "decide" => pc' = "check_outcome"
             /\ pc = "check_outcome" =>
                   /\ pc' \in { "Found", "build" }
                   /\ pc' = "build" <=> outcome # << Outcome_ALL, Outcome_NONE >>
             /\ pc = "build" => pc' = "ground" /\ rules' # {}
             /\ pc = "ground" => pc' = "add"
             /\ pc = "add" =>
                   pc' = "get_model" /\ solver'.store = solver.store \cup rules ]_vars
    /\ [][ program' # program => pc = "get_model" ]_vars
    /\ [][ total_programs' # total_programs => pc = "count" ]_vars
    /\ [][ conf_matrix' # conf_matrix => pc = "test" ]_vars
    /\ [][ best_score' # best_score => pc = "set_score" ]_vars
    /\ [][ args' # args => pc = "set_prog" ]_vars
    /\ [][ outcome' # outcome => pc = "decide" ]_vars
    /\ [][ rules' # rules => pc \in { "build", "ground" } ]_vars
    /\ [][ solver'.store # solver.store => pc = "add" ]_vars
    /\ [][ pc' = "get_model" => pc \in { "update", "add" } ]_vars

\* The second request comes with the first candidate's ground rules submitted.
C10_Witness ==
    /\ pc = "count"
    /\ total_programs = 1
    /\ rules # {}
    /\ rules \subseteq solver.store

\* C5: each of the 9 raw outcome pairs, after build_rules' remap of a negative
\* ALL to SOME, finds its row in OUTCOME_TO_CONSTRAINTS (no lookup miss) and
\* one non-empty tuple of constraint kinds; a pair with negative ALL gets the
\* kinds of the pair with the same positive outcome and negative SOME.
C5_RemapLookupTotal ==
    /\ pc # "KeyError"
    /\ pc = "ground" =>
          /\ kinds # << >>
          /\ KindSet \subseteq { Con_GENERALISATION, Con_SPECIALISATION,
                                 Con_REDUNDANCY, Con_BANISH }
          /\ outcome[2] \in { Outcome_ALL, Outcome_SOME } =>
                kinds = ( CASE outcome[1] = Outcome_ALL -> << Con_GENERALISATION >>
                            [] outcome[1] = Outcome_SOME ->
                                  << Con_SPECIALISATION, Con_GENERALISATION >>
                            [] outcome[1] = Outcome_NONE ->
                                  << Con_SPECIALISATION, Con_REDUNDANCY,
                                     Con_GENERALISATION >> )

C5_Witness ==
    /\ pc = "ground"
    /\ outcome = << Outcome_NONE, Outcome_ALL >>
    /\ kinds = << Con_SPECIALISATION, Con_REDUNDANCY, Con_GENERALISATION >>

\* C6: decide_outcome is defined on every matrix of non-negative counts;
\* positive is ALL iff fn = 0, NONE iff tp = 0 and fn > 0, SOME otherwise;
\* negative is NONE iff fp = 0 and SOME otherwise, never ALL, also when every
\* negative example is covered (tn = 0).
C6_DecideOutcome ==
    pc = "check_outcome" =>
        LET tp == conf_matrix[1]
            fn == conf_matrix[2]
            fp == conf_matrix[4]
        IN  /\ outcome[1] \in Outcomes
            /\ outcome[1] = Outcome_ALL <=> fn = 0
            /\ outcome[1] = Outcome_NONE <=> (tp = 0 /\ fn > 0)
            /\ outcome[1] = Outcome_SOME <=> (tp > 0 /\ fn > 0)
            /\ outcome[2] \in { Outcome_NONE, Outcome_SOME }
            /\ outcome[2] = Outcome_NONE <=> fp = 0

C6_Witness ==
    /\ pc = "check_outcome"
    /\ conf_matrix = << 0, 3, 0, 5 >>
    /\ outcome = << Outcome_NONE, Outcome_SOME >>

\* C7: the kinds the table gives for decide_outcome's result: SPECIALISATION
\* iff fn > 0, GENERALISATION iff fp > 0, REDUNDANCY iff tp = 0 and fn > 0,
\* BANISH iff fn = 0 and fp = 0, and then alone; (5,0,5,0) gives {BANISH} with
\* score 10, (0,3,5,0) {SPECIALISATION, REDUNDANCY}, (2,1,3,2)
\* {SPECIALISATION, GENERALISATION}.
C7_MatrixToKinds ==
    pc = "ground" =>
        LET tp == conf_matrix[1]
            fn == conf_matrix[2]
            fp == conf_matrix[4]
        IN  /\ Con_SPECIALISATION \in KindSet <=> fn > 0
            /\ Con_GENERALISATION \in KindSet <=> fp > 0
            /\ Con_REDUNDANCY \in KindSet <=> (tp = 0 /\ fn > 0)
            /\ Con_BANISH \in KindSet <=> (fn = 0 /\ fp = 0)
            /\ Con_BANISH \in KindSet => KindSet = { Con_BANISH }
            /\ Len(kinds) = Cardinality(KindSet)
            /\ conf_matrix = << 5, 0, 5, 0 >> =>
                  KindSet = { Con_BANISH } /\ score = 10
            /\ conf_matrix = << 0, 3, 5, 0 >> =>
                  KindSet = { Con_SPECIALISATION, Con_REDUNDANCY }
            /\ conf_matrix = << 2, 1, 3, 2 >> =>
                  KindSet = { Con_SPECIALISATION, Con_GENERALISATION }

C7_Witness ==
    /\ pc = "ground"
    /\ conf_matrix = << 2, 1, 3, 2 >>
    /\ kinds = << Con_SPECIALISATION, Con_GENERALISATION >>

\* C11: over the check_redundant_literal calls of a run the evaluator receives
\* the redundant_literal query at most once per clause signature, the signatures
\* queried being exactly the cached ones; after a build_rules call every outcome-
\* derived kind has its constraint in the rule set and a clause of the program
\* has its redundant-literal constraint there exactly when this call queried
\* its signature and the evaluator flagged it, so a clause checked by an
\* earlier call is neither queried nor yielded again.
C11_RedundantLiteralOnce ==
    /\ \A k \in DOMAIN prolog.redundant_literal : prolog.redundant_literal[k] <= 1
    /\ DOMAIN prolog.redundant_literal = tester.already_checked_redundant_literals
    /\ pc = "ground" =>
          /\ \A i \in DOMAIN kinds : constraints_of(kinds[i], program) \subseteq rules
          /\ \A c \in program :
                /\ clause_hash(c) \in tester.already_checked_redundant_literals
                /\ redundant_literal_constraint(c) \subseteq rules
                      <=> /\ clause_hash(c) \in DOMAIN calls.redundant_literal
                          /\ calls.redundant_literal[clause_hash(c)]
                /\ clause_hash(c) \notin DOMAIN calls.redundant_literal
                      => redundant_literal_constraint(c) \cap rules = {}

\* The second program shares a clause with the first, for which the clause was
\* flagged and its constraint submitted: a cache hit.
C11_Witness ==
    /\ pc = "ground"
    /\ total_programs = 2
    /\ \E c \in program :
          /\ clause_hash(c) \notin DOMAIN calls.redundant_literal
          /\ \E g \in solver.store : g.head = << Con_REDUNDANT_LITERAL, {c} >>
          /\ \E d \in program :
                /\ clause_hash(d) \in DOMAIN calls.redundant_literal
                /\ calls.redundant_literal[clause_hash(d)]

\* C12: whatever the outcome pair, the rule set build_rules returns holds the
\* program's generalisation constraint when functional_test is set and
\* is_non_functional answered yes, holds it when check_redundant_clause
\* answered yes, and holds the redundant-literal constraint of every clause the
\* evaluator flagged; is_non_functional is asked exactly when functional_test
\* is set, and check_redundant_clause always.
C12_AugmentationsIndependent ==
    pc = "ground" =>
        /\ (calls.is_non_functional # << >>) <=> settings.functional_test
        /\ Len(calls.is_non_functional) <= 1
        /\ Len(calls.redundant_clause) = 1
        /\ settings.functional_test /\ calls.is_non_functional = << TRUE >>
              => generalisation_constraint(program) \subseteq rules
        /\ calls.redundant_clause = << TRUE >>
              => generalisation_constraint(program) \subseteq rules
        /\ \A c \in program :
              /\ clause_hash(c) \in DOMAIN calls.redundant_literal
              /\ calls.redundant_literal[clause_hash(c)]
              => redundant_literal_constraint(c) \subseteq rules

\* A perfect outcome, whose table row is BANISH alone, with functional_test off:
\* is_non_functional was not asked, and the redundant clause and a redundant
\* literal each added their rule.
C12_Witness ==
    /\ pc = "ground"
    /\ outcome = << Outcome_ALL, Outcome_NONE >>
    /\ ~ settings.functional_test
    /\ calls.is_non_functional = << >>
    /\ calls.redundant_clause = << TRUE >>
    /\ generalisation_constraint(program) \subseteq rules
    /\ \E c \in program :
          /\ clause_hash(c) \in DOMAIN calls.redundant_literal
          /\ calls.redundant_literal[clause_hash(c)]
          /\ redundant_literal_constraint(c) \subseteq rules

\* C13: once a using() scope has been left, by whatever path, no clause it
\* installed is left in the Prolog context.
C13_UsingRemovesAll ==
    scope.at = "left" => prolog.clauses = {}

\* C14: the matrix tester.test returns holds four naturals with
\* tp + fn = the number of positive examples and tn + fp = the number of
\* negative examples, whatever the program and the success sets; the line
\* print_conf_matrix prints for it carries no '+'.
C14_MatrixSums ==
    /\ pc \in { "check_best", "printed" } =>
          /\ \A i \in 1..4 : conf_matrix[i] \in Nat
          /\ conf_matrix[1] + conf_matrix[2] = Cardinality(Pos)
          /\ conf_matrix[3] + conf_matrix[4] = Cardinality(Neg)
    /\ \A i \in DOMAIN stdout :
          /\ stdout[i][3] = "" /\ stdout[i][6] = ""
          /\ stdout[i][9] = "" /\ stdout[i][12] = ""

\* A non-separable program half covered: one positive missed, the negative
\* covered, and the line printed.
C14_Witness ==
    /\ pc = "printed"
    /\ \E rule \in program : ~ is_separable(rule)
    /\ conf_matrix = << 1, 1, 0, 1 >>
    /\ stdout = << print_conf_matrix(conf_matrix) >>

\* C15 as stated: no clause passed to grounder.find_bindings holds a meta
\* literal, and no ground constraint returned or submitted holds one.
C15_NoMetaToGrounder ==
    /\ \A request \in DOMAIN calls.find_bindings :
          \A l \in request[1].body : ~ l.meta
    /\ pc = "add" => \A g \in rules : \A l \in g.body : ~ l.meta
    /\ \A g \in solver.store : \A l \in g.body : ~ l.meta

\* C15, amended: the clause passed to grounder.find_bindings is the constraint
\* as built, its meta literals still in the body; they are removed after the
\* request and before instantiation, so no ground constraint returned by
\* ground_rules or submitted to the generator holds a meta literal.
C15_MetaRemovedBeforeInstantiation ==
    /\ \A request \in DOMAIN calls.find_bindings :
          /\ request[1] = constraint(request[1].head[1], request[1].head[2])
          /\ \E l \in request[1].body : l.meta
    /\ pc = "add" => \A g \in rules : \A l \in g.body : ~ l.meta
    /\ \A g \in solver.store : \A l \in g.body : ~ l.meta

\* The binder was asked about a rule with its meta literal in the body and
\* gave an assignment; the ground rule has the body without it.
C15_Witness ==
    /\ pc = "add"
    /\ \E request \in DOMAIN calls.find_bindings :
          /\ \E l \in request[1].body : l.meta
          /\ \E g \in rules :
                /\ g.head = request[1].head
                /\ g.body = { l \in request[1].body : ~ l.meta }
                /\ g.body # {}

\* C16: ground_rules sends the binder one request per rule of its argument
\* and no other, each with the generator's max_clauses and max_vars, and
\* returns exactly the instantiations of each rule under each assignment
\* returned for it.
C16_GroundRulesExact ==
    [][ pc = "ground" /\ pc' = "add" =>
          LET sent == calls'.find_bindings
              request(clause) == << clause, solver.max_clauses, solver.max_vars >>
          IN  /\ DOMAIN sent = { request(clause) : clause \in rules }
              /\ \A r \in DOMAIN sent : sent[r].count = 1
              /\ \A g \in rules' :
                    \E clause \in rules :
                       /\ g.head = clause.head
                       /\ g.body = { l \in clause.body : ~ l.meta }
                       /\ g.assignment \in sent[request(clause)].assignments
              /\ \A clause \in rules :
                    \A a \in sent[request(clause)].assignments :
                       \E g \in rules' :
                          /\ g.head = clause.head
                          /\ g.body = { l \in clause.body : ~ l.meta }
                          /\ g.assignment = a
              /\ Cardinality(rules') =
                    Cardinality({ << r, a >> \in (DOMAIN sent) \X (1..GroundBindings) :
                                     a \in sent[r].assignments }) ]_vars

\* Three rules, the binder giving two assignments for one, one for another
\* and none for the third: three ground rules.
C16_Witness ==
    /\ pc = "add"
    /\ Cardinality(DOMAIN calls.find_bindings) = 3
    /\ \E r1, r2, r3 \in DOMAIN calls.find_bindings :
          /\ Cardinality(calls.find_bindings[r1].assignments) = 2
          /\ Cardinality(calls.find_bindings[r2].assignments) = 1
          /\ calls.find_bindings[r3].assignments = {}
    /\ Cardinality(rules) = 3

\* C18: build_rules is never entered with the outcome (ALL, NONE), and BANISH
\* is never among the kinds looked up, the rules built, the rules sent to the
\* binder or the ground rules submitted to the generator.
C18_NoBanish ==
    /\ pc \in { "build", "ground", "add" } => outcome # << Outcome_ALL, Outcome_NONE >>
    /\ Con_BANISH \notin KindSet
    /\ \A r \in rules : r.head[1] # Con_BANISH
    /\ \A request \in DOMAIN calls.find_bindings : request[1].head[1] # Con_BANISH
    /\ \A g \in solver.store : g.head[1] # Con_BANISH

\* The second candidate is perfect: the run has returned with the first
\* candidate's rules in the store and nothing built for the second.
C18_Witness ==
    /\ pc = "Found"
    /\ outcome = << Outcome_ALL, Outcome_NONE >>
    /\ KindSet # {}
    /\ solver.store # {}
    /\ \A g \in solver.store : g.head[2] # program

\* C20: the table row of every outcome pair other than (ALL, NONE), after the
\* remap of a negative ALL, holds SPECIALISATION or GENERALISATION; for every
\* candidate that does not end the run the kinds looked up hold one of the
\* two and the rules built hold that constraint for the tested program.
C20_SpecialiseOrGeneralise ==
    /\ \A oc \in (Outcomes \X Outcomes) \ { << Outcome_ALL, Outcome_NONE >> } :
          \E i \in DOMAIN OUTCOME_TO_CONSTRAINTS[remap_outcome(oc)] :
             OUTCOME_TO_CONSTRAINTS[remap_outcome(oc)][i]
                \in { Con_SPECIALISATION, Con_GENERALISATION }
    /\ pc \in { "ground", "add" } =>
          \/ Con_SPECIALISATION \in KindSet
          \/ Con_GENERALISATION \in KindSet
    /\ pc = "ground" =>
          \/ Con_SPECIALISATION \in KindSet
               /\ specialisation_constraint(program) \subseteq rules
          \/ Con_GENERALISATION \in KindSet
               /\ generalisation_constraint(program) \subseteq rules

\* A candidate covering nothing: its rules hold the specialisation constraint
\* and, no evaluator check adding one, no generalisation constraint.
C20_Witness ==
    /\ pc = "ground"
    /\ outcome = << Outcome_NONE, Outcome_NONE >>
    /\ specialisation_constraint(program) \subseteq rules
    /\ generalisation_constraint(program) \cap rules = {}

\* The positions of popper at which the tracker update of the latest tested
\* candidate (lines 151-155) is complete.
TrackerSettled ==
    /\ tested # << >>
    /\ pc \in (Running \ { "check_best", "set_score", "set_prog" })
                \cup { "Found", "Exhausted" }

\* C19: before any candidate is counted the tracker holds nothing; once the
\* tracker update of a tested candidate is complete, total_programs > 0, the
\* tracker holds a pair, best_score is the largest tp + tn of the candidates
\* tested so far and the pair is the first tested candidate with that score;
\* so the first candidate is recorded whatever its score.
C19_TrackerHoldsEarliestBest ==
    /\ total_programs = 0 => PROG_KEY \notin DOMAIN args
    /\ TrackerSettled =>
          LET score_of(i) == calc_score(tested[i][2])
              first == CHOOSE i \in DOMAIN tested :
                          /\ \A j \in DOMAIN tested : score_of(j) <= score_of(i)
                          /\ \A j \in 1..(i - 1) : score_of(j) < score_of(i)
          IN  /\ total_programs > 0
              /\ PROG_KEY \in DOMAIN args
              /\ best_score = << score_of(first) >>
              /\ args[PROG_KEY] = tested[first]
              /\ Len(tested) = 1 => args[PROG_KEY] = tested[1]

\* Two different candidates, both of score 0: the first is the one held.
C19_Witness ==
    /\ pc = "decide"
    /\ Len(tested) = 2
    /\ calc_score(tested[1][2]) = 0
    /\ calc_score(tested[2][2]) = 0
    /\ tested[1][1] # tested[2][1]
    /\ best_score = << 0 >>
    /\ args[PROG_KEY] = tested[1]

\* C17: left to run, with the generator answering "no model" after finitely
\* many candidates, popper ends, in Found or having exhausted the sizes up to
\* max_literals; the budget announced never exceeds max_literals, one update
\* per size; with max_literals = 0 it ends exhausted without ever asking for a
\* candidate and with nothing recorded.
C17_Terminates ==
    /\ <>(pc \in { "Found", "Exhausted" })
    /\ [](pc = "Exhausted" => size = settings.max_literals)
    /\ [](solver.num_literals <= settings.max_literals /\ solver.num_literals <= size)
    /\ [][pc = "update" => solver'.num_literals = solver.num_literals + 1]_vars
    /\ [](settings.max_literals = 0 =>
             /\ pc \in { "for", "no_more", "Exhausted" }
             /\ total_programs = 0
             /\ PROG_KEY \notin DOMAIN args
             /\ best_score = << >>)
    /\ (settings.max_literals = 0) => <>(pc = "Exhausted")

\* The run has gone through both sizes and both candidates and is exhausted.
C17_Witness ==
    /\ pc = "Exhausted"
    /\ settings.max_literals = MaxLiterals
    /\ solver.num_literals = MaxLiterals
    /\ total_programs = MaxPrograms

====
